---- MODULE Spec2Model ----
(***************************************************************************)
(* Model of the debug-session protocol engine of mcp-dap-server:           *)
(* the debuggerSession of tools.go (cmd, client), the DAPClient of dap.go  *)
(* (connection, seq) and the tool handlers that send one request and read  *)
(* messages from the connection until they return.                         *)
(*                                                                         *)
(* A tool handler is modelled from one blocking ReadMessage to the next:   *)
(* Call is the handler up to its first ReadMessage, BridgeRead is one      *)
(* ReadMessage and everything the handler does with the message up to the  *)
(* next ReadMessage or its return.  The debugger (dlv dap) is the          *)
(* environment: it answers the requests it received, in order, emits       *)
(* events at any time, and may close the connection.                       *)
(***************************************************************************)
EXTENDS Integers, Sequences, FiniteSets, TLC

(* ---------------------------- bounds ----------------------------------- *)
\* requests one DAPClient may issue (caps DAPClient.seq)
MaxRequests == 3
\* events the debugger emits on one connection
MaxEvents == 1
\* scopes with a positive variables reference in one scopes response
MaxScopes == 1
\* lines the debugger subprocess writes before its readiness line
MaxLines == 1

(* ---------------------------- tools ------------------------------------ *)
\* handlers that call readAndValidateResponse
ValidateTools ==
    {"debug-program", "exec-program", "set-function-breakpoints",
     "configuration-done", "pause", "restart", "terminate", "attach",
     "disconnect"}
\* handlers that call ReadMessage once and accept any ResponseMessage
GenericTools ==
    {"threads", "variables", "set-variable", "loaded-sources", "modules",
     "disassemble", "exception-info"}
\* handlers that call ReadMessage once and type-switch on the response
TypedSingleTools == {"set-breakpoints", "scopes"}
\* handlers that loop over events until their typed response
TypedLoopTools == {"stack-trace", "evaluate"}
\* handlers that loop until a stopped or terminated event
StepTools == {"next", "step-in", "step-out"}
EventLoopTools == {"continue"} \cup StepTools

RequestTools ==
    ValidateTools \cup GenericTools \cup TypedSingleTools
        \cup TypedLoopTools \cup EventLoopTools

\* the operations the specification calls execution control
ExecutionControlTools == EventLoopTools \cup {"pause"}
\* the operations the specification calls state inspection
StateInspectionTools ==
    GenericTools \cup TypedSingleTools \cup TypedLoopTools

\* the DAP command of the request a tool sends first
Command(tool) ==
    CASE tool \in {"debug-program", "exec-program"} -> "launch"
      [] tool = "set-breakpoints" -> "setBreakpoints"
      [] tool = "set-function-breakpoints" -> "setFunctionBreakpoints"
      [] tool = "configuration-done" -> "configurationDone"
      [] tool = "step-in" -> "stepIn"
      [] tool = "step-out" -> "stepOut"
      [] tool = "stack-trace" -> "stackTrace"
      [] tool = "set-variable" -> "setVariable"
      [] tool = "loaded-sources" -> "loadedSources"
      [] tool = "exception-info" -> "exceptionInfo"
      [] tool = "start-debugger" -> "initialize"
      [] OTHER -> tool

\* the handlers without their ds.client == nil guard
HasNilCheck_None(tool) == FALSE

\* ds.client == nil guard at the top of the handler: every request handler
\* has it except debugProgram and execProgram
HasNilCheck(tool) == tool \notin {"debug-program", "exec-program"}

(* ---------------------------- messages --------------------------------- *)
NoClient == [seq |-> 0]
EventNames == {"stopped", "terminated", "output"}

\* The Go type dap.ReadProtocolMessage decodes a response to: a response
\* with success=false is a *dap.ErrorResponse whatever its command, a
\* successful one has the response type of its command.  The types no
\* handler names are one value: a handler sees them only as
\* dap.ResponseMessage.
ResponseType(command, ok) ==
    CASE ~ok -> "ErrorResponse"
      [] command = "initialize" -> "InitializeResponse"
      [] command = "setBreakpoints" -> "SetBreakpointsResponse"
      [] command = "stackTrace" -> "StackTraceResponse"
      [] command = "scopes" -> "ScopesResponse"
      [] command = "variables" -> "VariablesResponse"
      [] command = "evaluate" -> "EvaluateResponse"
      [] OTHER -> "Response"

\* dap.StoppedEventBody: the bodies the debugger gives its stopped events
NoBody == [reason |-> "none", threadId |-> 0, hitBreakpointIds |-> <<>>]
StoppedBodies ==
    {[reason |-> "breakpoint", threadId |-> 1, hitBreakpointIds |-> <<1>>],
     [reason |-> "breakpoint", threadId |-> 1, hitBreakpointIds |-> <<>>],
     [reason |-> "step", threadId |-> 1, hitBreakpointIds |-> <<>>]}

\* a message as ReadMessage returns it
Response(rseq, command, ok, n) ==
    [type |-> "response", request_seq |-> rseq, success |-> ok,
     gotype |-> ResponseType(command, ok), refs |-> n, body |-> NoBody]
Event(name) ==
    [type |-> "event", request_seq |-> 0, success |-> TRUE,
     gotype |-> CASE name = "stopped" -> "StoppedEvent"
                  [] name = "terminated" -> "TerminatedEvent"
                  [] OTHER -> "OutputEvent",
     refs |-> 0, body |-> NoBody]
StoppedEvent(body) == [Event("stopped") EXCEPT !.body = body]

IsResponseMessage(m) == m.type = "response"
IsEventMessage(m) == m.type = "event"

\* the type a handler's type switch sees
DecodedType(m) == m.gotype

(* ---------------------------- state ------------------------------------ *)
VARIABLES
    cmd,        \* ds.cmd: "nil", "unstarted" (Process nil) or "started"
    client,     \* ds.client: NoClient (nil) or [seq |-> next sequence number]
    conn,       \* connection of ds.client: "none", "open", "peer_closed",
                \* "reset" (writes fail) or "closed" (closed by the bridge)
    wire,       \* seq of the requests written on the connection of ds.client
    pending,    \* requests the debugger received and has not answered
    inbound,    \* messages the debugger wrote that the bridge has not read
    pc,         \* "idle", "start_wait", "read", "vars_read" or "crashed"
    cur,        \* the tool invocation in flight
    result,     \* what the last invocation returned (NoCall while one runs)
    events,     \* events emitted on the current connection
    stdout,     \* what the subprocess of ds.cmd wrote on its standard output
                \* and startDebugger has not read: <<>> or one ReadString
    other       \* a second tool invocation running at the same time as the
                \* one of pc and cur (NoOther when there is none)

vars ==
    <<cmd, client, conn, wire, pending, inbound, pc, cur, result, events,
      stdout, other>>

\* a tool invocation: the tool, the seq of its first request, the seq of the
\* request it is waiting on, the requests it sent, the scopes left to fetch,
\* the lines startDebugger skipped, the scopes whose variables getScopes
\* wrote, the args restart was called with, whether the invocation before
\* it was a continue that returned the stopped result (kept for stack-trace
\* and evaluate), whether a stopped or terminated event was unread in the
\* stream when its request was sent (kept for continue and the steps), the
\* description of the stop it returns, what it read so far, and
\* (once it returned) the kind of its result, the request_seq of the response
\* the result was taken from and the decoded type of the message that ended it
\* a second invocation: its tool and the seq of its request
NoOther == [tool |-> "none", seq |-> 0]

NoCall ==
    [tool |-> "none", seq |-> 0, await |-> 0, sent |-> 0, left |-> 0,
     skipped |-> 0, fetched |-> 0, args |-> <<>>, afterStop |-> FALSE,
     leftover |-> FALSE, text |-> <<>>,
     okResponses |-> 0, errResponses |-> 0, eventsRead |-> 0,
     sawStopped |-> FALSE,
     sawTerminated |-> FALSE, stale |-> FALSE,
     kind |-> "none", from |-> 0, via |-> "none"]

Init ==
    /\ cmd = "nil"
    /\ client = NoClient
    /\ conn = "none"
    /\ wire = <<>>
    /\ pending = <<>>
    /\ inbound = <<>>
    /\ pc = "idle"
    /\ cur = NoCall
    /\ result = NoCall
    /\ events = 0
    /\ stdout = <<>>
    /\ other = NoOther

(* ---------------------------- DAPClient -------------------------------- *)
\* newDAPClientFromConn: c.seq = 1
newDAPClientFromConn == [seq |-> 1]

\* newRequest without its c.seq++
newRequest_NoIncrement(c, command) ==
    [request |-> [seq |-> c.seq, command |-> command], client |-> c]

\* DAPClient.newRequest: the request takes c.seq, then c.seq++
newRequest(c, command) ==
    [request |-> [seq |-> c.seq, command |-> command],
     client |-> [c EXCEPT !.seq = c.seq + 1]]

\* DAPClient.RestartRequest(arguments): a restart request whose arguments
\* are the map the handler hands it
RestartRequest(c, arguments) ==
    LET r == newRequest(c, "restart") IN
    [request |-> [seq |-> r.request.seq, command |-> r.request.command,
                  arguments |-> arguments],
     client |-> r.client]

\* DAPClient.SetBreakpointsRequest(file, lines): the source named by the
\* file, one breakpoint per line
SetBreakpointsRequest(c, file, lines) ==
    LET r == newRequest(c, "setBreakpoints") IN
    [request |-> [seq |-> r.request.seq, command |-> r.request.command,
                  arguments |-> [source |-> [name |-> file, path |-> file],
                                 breakpoints |-> lines]],
     client |-> r.client]

(* ------------------- what a handler does with a message ---------------- *)
\* Each operator gives, for the message a ReadMessage returned, "wait" when
\* the handler goes on to the next ReadMessage, else the kind of its result:
\* "ok", "stopped", "terminated", "remote_error" (an error carrying the
\* debugger's message) or "unexpected" (an "unexpected response" error).

\* readAndValidateResponse that never returns on a response
readAndValidateResponse_SkipsResponses(m) == "wait"

\* readAndValidateResponse: events are skipped, the first response decides
readAndValidateResponse(m) ==
    IF IsResponseMessage(m)
    THEN IF m.success THEN "ok" ELSE "remote_error"
    ELSE "wait"

startDebugger(m) ==
    IF DecodedType(m) = "InitializeResponse" THEN "ok" ELSE "unexpected"

setBreakpoints(m) ==
    CASE DecodedType(m) = "SetBreakpointsResponse" -> "ok"
      [] DecodedType(m) = "ErrorResponse" -> "remote_error"
      [] OTHER -> "unexpected"

\* continueExecution returning on its response, as pauseExecution does
continueExecution_ReturnsOnResponse(m) ==
    CASE IsResponseMessage(m) -> IF m.success THEN "ok" ELSE "remote_error"
      [] DecodedType(m) = "StoppedEvent" -> "stopped"
      [] DecodedType(m) = "TerminatedEvent" -> "terminated"
      [] OTHER -> "wait"

continueExecution(m) ==
    CASE IsResponseMessage(m) -> IF m.success THEN "wait" ELSE "remote_error"
      [] DecodedType(m) = "StoppedEvent" -> "stopped"
      [] DecodedType(m) = "TerminatedEvent" -> "terminated"
      [] OTHER -> "wait"

\* nextStep returning on the step response, without the event loop
nextStep_ReturnsOnResponse(m) ==
    IF IsResponseMessage(m)
    THEN IF m.success THEN "ok" ELSE "remote_error"
    ELSE "wait"

nextStep(m) ==
    CASE IsResponseMessage(m) -> IF m.success THEN "wait" ELSE "remote_error"
      [] DecodedType(m) = "StoppedEvent" -> "stopped"
      [] DecodedType(m) = "TerminatedEvent" -> "terminated"
      [] OTHER -> "wait"

stepIn(m) ==
    CASE IsResponseMessage(m) -> IF m.success THEN "wait" ELSE "remote_error"
      [] DecodedType(m) = "StoppedEvent" -> "stopped"
      [] DecodedType(m) = "TerminatedEvent" -> "terminated"
      [] OTHER -> "wait"

stepOut(m) ==
    CASE IsResponseMessage(m) -> IF m.success THEN "wait" ELSE "remote_error"
      [] DecodedType(m) = "StoppedEvent" -> "stopped"
      [] DecodedType(m) = "TerminatedEvent" -> "terminated"
      [] OTHER -> "wait"

pauseExecution(m) == readAndValidateResponse(m)

\* listThreads, getVariables, setVariable, getLoadedSources, getModules,
\* disassembleCode, getExceptionInfo: one ReadMessage, any ResponseMessage
listThreads(m) ==
    IF IsResponseMessage(m)
    THEN IF m.success THEN "ok" ELSE "remote_error"
    ELSE "unexpected"

getStackTrace(m) ==
    CASE DecodedType(m) = "StackTraceResponse" -> "ok"
      [] IsEventMessage(m) -> "wait"
      [] IsResponseMessage(m) ->
            IF m.success THEN "unexpected" ELSE "remote_error"
      [] OTHER -> "unexpected"

\* the first ReadMessage of getScopes
getScopes(m) ==
    IF DecodedType(m) = "ScopesResponse" THEN "ok" ELSE "unexpected"

evaluateExpression(m) ==
    CASE DecodedType(m) = "EvaluateResponse" -> "ok"
      [] IsEventMessage(m) -> "wait"
      [] OTHER -> "unexpected"

\* formatStoppedResponse: the description of a stop, or "panic" for the
\* index out of range of msg.HitBreakpointIds[0] on an empty list
formatStoppedResponse(msg) ==
    IF msg.reason \in {"breakpoint", "function breakpoint"}
    THEN IF msg.hitBreakpointIds = <<>>
         THEN "panic"
         ELSE <<"hitting breakpoint", Head(msg.hitBreakpointIds),
                "hit by thread", msg.threadId>>
    ELSE <<"unknown reason">>

OnMessage(tool, m) ==
    CASE tool = "start-debugger" -> startDebugger(m)
      [] tool = "set-breakpoints" -> setBreakpoints(m)
      [] tool = "continue" -> continueExecution(m)
      [] tool = "next" -> nextStep(m)
      [] tool = "step-in" -> stepIn(m)
      [] tool = "step-out" -> stepOut(m)
      [] tool = "pause" -> pauseExecution(m)
      [] tool = "stack-trace" -> getStackTrace(m)
      [] tool = "scopes" -> getScopes(m)
      [] tool = "evaluate" -> evaluateExpression(m)
      [] tool \in GenericTools -> listThreads(m)
      [] OTHER -> readAndValidateResponse(m)

\* bookkeeping of what the invocation c has read, after it read m
Note(c, m) ==
    [c EXCEPT
       !.okResponses = IF IsResponseMessage(m) /\ m.success THEN @ + 1 ELSE @,
       !.errResponses =
           IF IsResponseMessage(m) /\ ~m.success THEN @ + 1 ELSE @,
       !.eventsRead = IF IsEventMessage(m) THEN @ + 1 ELSE @,
       !.sawStopped = @ \/ DecodedType(m) = "StoppedEvent",
       !.sawTerminated = @ \/ DecodedType(m) = "TerminatedEvent",
       !.stale = @ \/ (IsResponseMessage(m) /\ m.request_seq # c.await)]

\* the invocation c returns a result of the given kind, decided by message m
Returned(c, kind, m) ==
    [c EXCEPT !.kind = kind, !.via = DecodedType(m),
              !.from = IF IsResponseMessage(m) THEN m.request_seq ELSE 0]

\* a handler that returns locally after it had sent its request
ReturnedLocal_AfterSend(c, kind) == [c EXCEPT !.kind = kind, !.sent = 1]

\* the invocation c returns without a message having decided it
ReturnedLocal(c, kind) == [c EXCEPT !.kind = kind]

\* the unread messages q hold an event that ends the loop of continue and
\* of the steps
HoldsEndingEvent(q) ==
    \E i \in 1 .. Len(q) :
       DecodedType(q[i]) \in {"StoppedEvent", "TerminatedEvent"}

(* ---------------------------- tool calls ------------------------------- *)
\* DAPClient.send on the connection of ds.client: the write is accepted
\* while the connection is open, and once more after the peer closed it
Accepted == conn \in {"open", "peer_closed"}

\* the connection after a write: a write on a connection the peer closed is
\* answered by a reset, and every later write fails
AfterWrite == IF conn = "peer_closed" THEN "reset" ELSE conn

\* the invocation c returns: it becomes the last result
Finish(c) ==
    /\ result' = c
    /\ cur' = NoCall
    /\ pc' = "idle"

\* a nil pointer dereference (or a log.Fatal) in the handler of c
Crash(c, kind) ==
    /\ result' = ReturnedLocal(c, kind)
    /\ cur' = NoCall
    /\ pc' = "crashed"

\* the args a caller gives restart
RestartArgs == {<<>>, <<"-v">>}

\* what a caller gives set-breakpoints: <<file, lines>>
SetBreakpointsArgs ==
    {<<"main.go", <<7>>>>, <<"main.go", <<>>>>, <<"", <<7>>>>}

ArgsOf(tool) ==
    CASE tool = "restart" -> RestartArgs
      [] tool = "set-breakpoints" -> SetBreakpointsArgs
      [] OTHER -> {<<>>}

\* the map restartDebugger builds without the caller's args
restartArguments_NoArgs(args) ==
    [request |-> "launch", mode |-> "exec", stopOnEntry |-> FALSE,
     args |-> <<>>]

\* the map restartDebugger builds for RestartRequest
restartArguments(args) ==
    [request |-> "launch", mode |-> "exec", stopOnEntry |-> FALSE,
     args |-> args]

\* the handler building its request a second time before it sends it
SendRequest_Rebuilds(tool, c, args) ==
    newRequest(newRequest(c, Command(tool)).client, Command(tool))

\* the request method the handler of the tool calls
SendRequest(tool, c, args) ==
    CASE tool = "restart" -> RestartRequest(c, restartArguments(args))
      [] tool = "set-breakpoints" ->
            SetBreakpointsRequest(c, args[1], args[2])
      [] OTHER -> newRequest(c, Command(tool))

\* ds.client kept after ds.client.Close()
ClosedClient_KeepsHandle == newDAPClientFromConn

\* ds.client after stopDebugger and disconnect closed the connection:
\* ds.client.Close() is followed by ds.client = nil
ClosedClient == NoClient

\* the most requests the handler of the tool sends after its first one: the
\* variables requests of getScopes, one per scope
NestedRequests(tool) == IF tool = "scopes" THEN MaxScopes ELSE 0

\* A request tool is invoked: the ds.client == nil guard where the handler
\* has one, then the request (newRequest and send), up to the first
\* ReadMessage.
Call(tool) ==
    /\ pc = "idle"
    /\ \E args \in ArgsOf(tool) :
       LET c == [NoCall EXCEPT
                   !.tool = tool, !.args = args,
                   !.afterStop = (tool \in TypedLoopTools
                                    /\ result.tool = "continue"
                                    /\ result.kind = "stopped"),
                   !.leftover = (tool \in EventLoopTools
                                   /\ HoldsEndingEvent(inbound))] IN
       IF client = NoClient
       THEN /\ IF HasNilCheck(tool)
               THEN Finish(ReturnedLocal(c, "not_started"))
               ELSE Crash(c, "panic")
            /\ UNCHANGED <<cmd, client, conn, wire, pending, inbound, events>>
       ELSE /\ client.seq + NestedRequests(tool) <= MaxRequests
            /\ LET r == SendRequest(tool, client, args)
                   c1 == [c EXCEPT !.seq = r.request.seq,
                                   !.await = r.request.seq, !.sent = 1]
               IN /\ client' = r.client
                  /\ IF Accepted
                     THEN /\ wire' = Append(wire, r.request.seq)
                          /\ pending' = IF conn = "open"
                                        THEN Append(pending, r.request)
                                        ELSE pending
                          /\ conn' = AfterWrite
                          /\ cur' = c1
                          /\ pc' = "read"
                          /\ result' = NoCall
                     ELSE /\ Finish(ReturnedLocal(c1, "send_error"))
                          /\ UNCHANGED <<wire, pending, conn>>
            /\ UNCHANGED <<cmd, inbound, events>>
    /\ UNCHANGED <<stdout, other>>

\* The loop of getScopes over the scopes of the response, from the scope
\* after the c.left-th last one: the handler sends a variables request for
\* the scope and goes to ReadMessage; a failed send skips the scope.  The
\* loop reads ds.client anew for every scope: it is nil when another
\* invocation tore the session down in the meantime.
ScopesLoop(c) ==
    IF c.left = 0
    THEN /\ Finish(c)
         /\ UNCHANGED <<client, conn, wire, pending>>
    ELSE IF client = NoClient
    THEN \* ds.client.VariablesRequest on the nil ds.client
         /\ Crash(c, "panic")
         /\ UNCHANGED <<client, conn, wire, pending>>
    ELSE LET r == newRequest(client, "variables") IN
         IF Accepted
         THEN /\ client' = r.client
              /\ wire' = Append(wire, r.request.seq)
              /\ pending' = IF conn = "open"
                            THEN Append(pending, r.request)
                            ELSE pending
              /\ conn' = AfterWrite
              /\ cur' = [c EXCEPT !.await = r.request.seq, !.sent = @ + 1]
              /\ pc' = "vars_read"
              /\ UNCHANGED result
         ELSE \* every remaining send fails too
              /\ client' = [client EXCEPT !.seq = @ + c.left]
              /\ Finish([c EXCEPT !.sent = @ + c.left, !.left = 0])
              /\ UNCHANGED <<conn, wire, pending>>

\* ReadMessage fails: nothing is left to read on a connection that is no
\* longer open (closed by the debugger, or by the bridge under a handler
\* that was reading from it)
ReadFails == inbound = <<>> /\ conn \in {"peer_closed", "reset", "closed"}

\* handlers that pass ds.client to readAndValidateResponse, which keeps it
\* for all its reads; the loops of the other handlers call
\* ds.client.ReadMessage() anew at every turn
KeepsClient(tool) == tool \in ValidateTools

\* One ReadMessage of the handler in flight, and what the handler does with
\* the message up to its next ReadMessage or its return.
BridgeRead ==
    /\ pc = "read"
    /\ IF inbound # <<>>
       THEN LET m == Head(inbound)
                c == Note(cur, m)
                k == OnMessage(cur.tool, m)
            IN /\ inbound' = Tail(inbound)
               /\ CASE k = "wait" /\ client = NoClient
                           /\ ~KeepsClient(cur.tool) ->
                         \* the next ds.client.ReadMessage(), on the nil
                         \* ds.client another invocation left
                         /\ Crash(c, "panic")
                         /\ UNCHANGED <<client, conn, wire, pending>>
                    [] k = "wait" ->
                         /\ cur' = c
                         /\ UNCHANGED <<pc, result, client, conn, wire,
                                        pending>>
                    [] k = "ok" /\ cur.tool = "scopes" ->
                         /\ client.seq + m.refs <= MaxRequests + 1
                         /\ ScopesLoop([Returned(c, k, m) EXCEPT !.left = m.refs])
                    [] k = "ok" /\ cur.tool = "disconnect"
                           /\ client = NoClient ->
                         \* ds.client.Close() on the nil ds.client
                         /\ Crash(c, "panic")
                         /\ UNCHANGED <<client, conn, wire, pending>>
                    [] k = "ok" /\ cur.tool = "disconnect" ->
                         \* ds.client.Close(); ds.client = nil
                         /\ Finish(Returned(c, k, m))
                         /\ client' = ClosedClient
                         /\ conn' = "closed"
                         /\ pending' = <<>>
                         /\ UNCHANGED wire
                    [] k = "stopped" ->
                         /\ IF formatStoppedResponse(m.body) = "panic"
                            THEN Crash(c, "panic")
                            ELSE Finish([Returned(c, k, m) EXCEPT !.text =
                                            formatStoppedResponse(m.body)])
                         /\ UNCHANGED <<client, conn, wire, pending>>
                    [] OTHER ->
                         /\ Finish(Returned(c, k, m))
                         /\ UNCHANGED <<client, conn, wire, pending>>
       ELSE /\ ReadFails
            /\ Finish(ReturnedLocal(cur, "read_error"))
            /\ UNCHANGED <<inbound, client, conn, wire, pending>>
    /\ UNCHANGED <<cmd, events, stdout, other>>

\* The ReadMessage of getScopes after a variables request: whatever it
\* returns (a variables response, another message or an error), the loop
\* goes on with the next scope; the variables are written when the message
\* is a successful *dap.VariablesResponse.
VarsRead ==
    /\ pc = "vars_read"
    /\ IF inbound # <<>>
       THEN /\ inbound' = Tail(inbound)
            /\ ScopesLoop([Note(cur, Head(inbound)) EXCEPT
                             !.left = @ - 1,
                             !.fetched =
                                 IF DecodedType(Head(inbound))
                                       = "VariablesResponse"
                                 THEN @ + 1 ELSE @])
       ELSE /\ ReadFails
            /\ UNCHANGED inbound
            /\ ScopesLoop([cur EXCEPT !.left = @ - 1])
    /\ UNCHANGED <<cmd, events, stdout, other>>

(* ---------------------------- start and stop --------------------------- *)
\* A line of the subprocess's standard output, as the texts it is made of.
ReadinessText == "DAP server listening at"
Lines ==
    {<<ReadinessText, ": [::]:8080">>,
     <<"layer=dap ", ReadinessText>>,
     <<>>}

\* what one r.ReadString('\n') returns: a line, or an error once the
\* subprocess has closed its standard output
Outputs ==
    {[s |-> l, err |-> FALSE] : l \in Lines} \cup {[s |-> <<>>, err |-> TRUE]}

\* strings.HasPrefix
HasPrefix(s, prefix) ==
    /\ Len(s) >= Len(prefix)
    /\ SubSeq(s, 1, Len(prefix)) = prefix

\* the readiness loop breaking on whatever line it reads
IsReadinessLine_AnyLine(s) == TRUE

\* strings.HasPrefix(s, "DAP server listening at")
IsReadinessLine(s) == HasPrefix(s, <<ReadinessText>>)

\* startDebugger up to the loop that reads the subprocess's standard
\* output: ds.cmd = exec.Command(...) replaces the handle that was there,
\* then ds.cmd.Start(), which may fail.
StartDebugger ==
    /\ pc = "idle"
    /\ LET c == [NoCall EXCEPT !.tool = "start-debugger"] IN
       \E spawned \in BOOLEAN :
          IF spawned
          THEN /\ cmd' = "started"
               /\ cur' = c
               /\ pc' = "start_wait"
               /\ result' = NoCall
          ELSE /\ cmd' = "unstarted"
               /\ Finish(ReturnedLocal(c, "start_error"))
    /\ stdout' = <<>>
    /\ UNCHANGED <<client, conn, wire, pending, inbound, events, other>>

\* the subprocess writes a line on its standard output, or closes it
SubprocessWrites ==
    /\ pc = "start_wait"
    /\ stdout = <<>>
    /\ \E o \in Outputs :
          /\ ~o.err /\ (o.s = <<>> \/ Head(o.s) # ReadinessText) =>
                cur.skipped < MaxLines
          /\ stdout' = <<o>>
    /\ UNCHANGED <<cmd, client, conn, wire, pending, inbound, pc, cur, result,
                   events, other>>

\* One r.ReadString('\n') of startDebugger's readiness loop and what follows
\* it up to the next read: a read error is returned, another line than the
\* readiness line is skipped; on the readiness line newDAPClient dials
\* (log.Fatal ends the bridge when the dial fails) and replaces ds.client,
\* then InitializeRequest, whose error is returned, then ReadMessage.
StartConnect ==
    /\ pc = "start_wait"
    /\ stdout # <<>>
    /\ stdout' = <<>>
    /\ LET o == Head(stdout) IN
       CASE o.err ->
               /\ Finish(ReturnedLocal(cur, "start_error"))
               /\ UNCHANGED <<client, conn, wire, pending, inbound, events>>
         [] ~o.err /\ ~IsReadinessLine(o.s) ->
               /\ cur' = [cur EXCEPT !.skipped = @ + 1]
               /\ UNCHANGED <<pc, result, client, conn, wire, pending,
                              inbound, events>>
         [] OTHER ->
               \E dial \in {"connected", "sent", "refused"} :
                  IF dial = "refused"
                  THEN /\ Crash(cur, "fatal")
                       /\ UNCHANGED <<client, conn, wire, pending, inbound,
                                      events>>
                  ELSE LET r == newRequest(newDAPClientFromConn, "initialize")
                           c == [cur EXCEPT !.seq = r.request.seq,
                                            !.await = r.request.seq,
                                            !.sent = 1]
                       IN /\ client' = r.client
                          /\ inbound' = <<>>
                          /\ events' = 0
                          /\ IF dial = "sent"
                             THEN /\ conn' = "open"
                                  /\ wire' = <<r.request.seq>>
                                  /\ pending' = <<r.request>>
                                  /\ cur' = c
                                  /\ pc' = "read"
                                  /\ UNCHANGED result
                             ELSE /\ conn' = "reset"
                                  /\ wire' = <<>>
                                  /\ pending' = <<>>
                                  /\ Finish(ReturnedLocal(c, "send_error"))
    /\ UNCHANGED <<cmd, other>>

\* what ds.cmd.Process.Kill() returns: nil, an error that says the process
\* has already finished, or another error
KillOutcomes == {"killed", "already_finished", "error"}

\* stopDebugger returning the error of Kill whatever it says
AlreadyFinished_NotTolerated(kill) == FALSE

\* strings.Contains(err.Error(), "process already finished")
AlreadyFinished(kill) == kill = "already_finished"

\* stopDebugger without its ds.cmd == nil guard
NothingRunning_NoGuard == FALSE

\* ds.cmd == nil
NothingRunning == cmd = "nil"

\* stopDebugger.  ds.cmd.Process.Kill() dereferences a nil Process when the
\* subprocess was never started; an "already finished" error is ignored, any
\* other error is returned after the connection was closed.
StopDebugger ==
    /\ pc = "idle"
    /\ LET c == [NoCall EXCEPT !.tool = "stop-debugger"] IN
       IF NothingRunning
       THEN /\ Finish(ReturnedLocal(c, "nothing_running"))
            /\ UNCHANGED <<cmd, client, conn, pending>>
       ELSE /\ client' = ClosedClient
            /\ conn' = IF client # NoClient THEN "closed" ELSE conn
            /\ pending' = <<>>
            /\ IF cmd = "unstarted"
               THEN /\ Crash(c, "panic")
                    /\ UNCHANGED cmd
               ELSE \E kill \in KillOutcomes :
                       IF kill # "killed" /\ ~AlreadyFinished(kill)
                       THEN /\ Finish([ReturnedLocal(c, "kill_error")
                                          EXCEPT !.via = kill])
                            /\ UNCHANGED cmd
                       ELSE /\ Finish([ReturnedLocal(c, "ok")
                                          EXCEPT !.via = kill])
                            /\ cmd' = "nil"
    /\ UNCHANGED <<wire, inbound, events, stdout, other>>

(* ---------------------------- the debugger ----------------------------- *)
\* the debugger answers the oldest request it has not answered
DebuggerRespond ==
    /\ pc # "crashed"
    /\ conn = "open"
    /\ pending # <<>>
    /\ LET r == Head(pending) IN
       \E ok \in BOOLEAN :
       \E n \in 0 .. (IF ok /\ r.command = "scopes" THEN MaxScopes ELSE 0) :
          inbound' = Append(inbound, Response(r.seq, r.command, ok, n))
    /\ pending' = Tail(pending)
    /\ UNCHANGED <<cmd, client, conn, wire, pc, cur, result, events,
                   stdout, other>>

\* the debugger emits an event
DebuggerEvent ==
    /\ pc # "crashed"
    /\ conn = "open"
    /\ events < MaxEvents
    /\ events' = events + 1
    /\ \E e \in EventNames :
          IF e = "stopped"
          THEN \E body \in StoppedBodies :
                  inbound' = Append(inbound, StoppedEvent(body))
          ELSE inbound' = Append(inbound, Event(e))
    /\ UNCHANGED <<cmd, client, conn, wire, pending, pc, cur, result,
                   stdout, other>>

\* the debugger closes the connection (it exits or is killed)
PeerClose ==
    /\ pc # "crashed"
    /\ conn = "open"
    /\ conn' = "peer_closed"
    /\ pending' = <<>>
    /\ UNCHANGED <<cmd, client, wire, inbound, pc, cur, result, events,
                   stdout, other>>

(* ---------------------------- specification ---------------------------- *)
CallTool == \E tool \in RequestTools : Call(tool)

Next ==
    \/ StartDebugger
    \/ SubprocessWrites
    \/ StartConnect
    \/ StopDebugger
    \/ CallTool
    \/ BridgeRead
    \/ VarsRead
    \/ DebuggerRespond
    \/ DebuggerEvent
    \/ PeerClose

Spec == Init /\ [][Next]_vars

\* A handler blocked in ReadMessage proceeds when a message (or the end of
\* the stream) is there to read; nothing obliges the debugger to answer.
FairSpec ==
    Spec /\ WF_vars(BridgeRead) /\ WF_vars(VarsRead) /\ WF_vars(StartConnect)

\* The debugger process contract the specification assumes: the debugger
\* does not close the connection, and it answers every request it received.
ResponsiveNext ==
    \/ StartDebugger
    \/ SubprocessWrites
    \/ StartConnect
    \/ CallTool
    \/ BridgeRead
    \/ VarsRead
    \/ DebuggerRespond
    \/ DebuggerEvent

ResponsiveSpec ==
    /\ Init
    /\ [][ResponsiveNext]_vars
    /\ WF_vars(BridgeRead)
    /\ WF_vars(VarsRead)
    /\ WF_vars(DebuggerRespond)

(* ---------------------------- concurrent invocations ------------------- *)
\* registerTools hands the methods of one debuggerSession to the server,
\* and main serves every SSE connection from that server: tool invocations
\* of different connections run at the same time on the same cmd and
\* client, and no handler takes a lock.  Spec has one invocation at a time;
\* ConcurrentSpec adds a second one, started while the first is waiting in
\* ReadMessage.

\* the tools of the second invocation: a handler with one ReadMessage, one
\* with an event loop, one that calls readAndValidateResponse
OtherTools == {"threads", "continue", "pause"}

\* The second invocation up to its ReadMessage (the session is connected:
\* otherwise its handler returns at its ds.client == nil guard).
OtherCall ==
    /\ pc \in {"read", "vars_read"}
    /\ other = NoOther
    /\ client # NoClient
    /\ client.seq <= MaxRequests
    /\ \E tool \in OtherTools :
          LET r == newRequest(client, Command(tool)) IN
          /\ client' = r.client
          /\ IF Accepted
             THEN /\ wire' = Append(wire, r.request.seq)
                  /\ pending' = IF conn = "open"
                                THEN Append(pending, r.request)
                                ELSE pending
                  /\ conn' = AfterWrite
                  /\ other' = [tool |-> tool, seq |-> r.request.seq]
             ELSE UNCHANGED <<wire, pending, conn, other>>
    /\ UNCHANGED <<cmd, inbound, pc, cur, result, events, stdout>>

\* One ReadMessage of the second invocation, from the same connection, and
\* what its handler does with the message up to its next ReadMessage or its
\* return.
OtherRead ==
    /\ pc # "crashed"
    /\ other # NoOther
    /\ IF inbound # <<>>
       THEN LET k == OnMessage(other.tool, Head(inbound)) IN
            /\ inbound' = Tail(inbound)
            /\ CASE k = "wait" /\ client = NoClient
                        /\ ~KeepsClient(other.tool) ->
                      pc' = "crashed" /\ UNCHANGED other
                 [] k = "wait" -> UNCHANGED <<pc, other>>
                 [] k = "stopped"
                        /\ formatStoppedResponse(Head(inbound).body)
                              = "panic" ->
                      pc' = "crashed" /\ UNCHANGED other
                 [] OTHER -> other' = NoOther /\ UNCHANGED pc
       ELSE /\ ReadFails
            /\ other' = NoOther
            /\ UNCHANGED <<inbound, pc>>
    /\ UNCHANGED <<cmd, client, conn, wire, pending, cur, result, events,
                   stdout>>

\* stopDebugger invoked while the invocation of pc and cur is waiting in
\* ReadMessage: the same steps as StopDebugger, its result going to its own
\* caller.
ConcurrentStop ==
    /\ pc \in {"read", "vars_read"}
    /\ ~NothingRunning
    /\ client' = ClosedClient
    /\ conn' = IF client # NoClient THEN "closed" ELSE conn
    /\ pending' = <<>>
    /\ IF cmd = "unstarted"
       THEN pc' = "crashed" /\ UNCHANGED cmd
       ELSE /\ \E kill \in KillOutcomes :
                  cmd' = IF kill # "killed" /\ ~AlreadyFinished(kill)
                         THEN cmd
                         ELSE "nil"
            /\ UNCHANGED pc
    /\ UNCHANGED <<wire, inbound, cur, result, events, stdout, other>>

ConcurrentNext ==
    \/ Next
    \/ OtherCall
    \/ OtherRead
    \/ ConcurrentStop

ConcurrentSpec == Init /\ [][ConcurrentNext]_vars

TypeOK ==
    /\ cmd \in {"nil", "unstarted", "started"}
    /\ client.seq \in 0 .. MaxRequests + 1
    /\ conn \in {"none", "open", "peer_closed", "reset", "closed"}
    /\ pc \in {"idle", "start_wait", "read", "vars_read", "crashed"}
    /\ Len(wire) <= MaxRequests
    /\ events \in 0 .. MaxEvents
    /\ Len(stdout) <= 1
    /\ cur.skipped \in 0 .. MaxLines

(* ---------------------------- properties ------------------------------- *)
\* the elements of a sequence
Range(q) == {q[i] : i \in 1 .. Len(q)}

\* the invocation c returned on a response with success=false whose
\* request_seq is the seq of its request
IsFailureOfOwnRequest(c) ==
    c.via = "ErrorResponse" /\ c.from = c.seq

SuccessKinds == {"ok", "stopped", "terminated"}
EventTypes == {"StoppedEvent", "TerminatedEvent", "OutputEvent"}

\* C1: the outcome of an operation that sent the request with sequence
\* number s is taken only from the response whose request_seq is s.
C1_ResultFromMatchingResponse ==
    result.from # 0 => result.from = result.seq

\* C2: the seq fields of the requests written on one connection are
\* 1, 2, ..., N in issuance order.
C2_WireSeqIsOneToN ==
    \A i \in 1 .. Len(wire) : wire[i] = i

\* the nested variables request of scopes is on the wire as the third request
C2_Witness ==
    /\ pc = "vars_read"
    /\ Len(wire) = 3
    /\ cur.tool = "scopes"

\* C3: a response correlated to another sequence number than the awaited
\* one makes the operation fail with a protocol-desync error and terminates
\* the session; the operation neither waits on nor accepts it.
C3_StaleResponseIsDesync ==
    /\ ~cur.stale
    /\ result.stale => result.kind = "desync" /\ client = NoClient

\* C4: no state-inspection operation returns because of an event: events
\* before the awaited response are ignored.
C4_InspectionIgnoresEvents ==
    result.tool \in StateInspectionTools => result.via \notin EventTypes

\* C5: continue succeeds only on a stopped event (stopped result) or a
\* terminated event (terminated result) read after its request; a
\* successful response does not end it, a failure response ends it with an
\* error.
C5_ContinueCompletion ==
    /\ result.tool = "continue" /\ result.kind \in SuccessKinds =>
          \/ result.kind = "stopped" /\ result.via = "StoppedEvent"
          \/ result.kind = "terminated" /\ result.via = "TerminatedEvent"
    /\ result.tool = "continue" /\ result.errResponses > 0 =>
          result.kind = "remote_error"
    /\ cur.tool = "continue" => cur.errResponses = 0

\* continue read its successful response, kept waiting, and returned the
\* stopped result on the stopped event
C5_Witness ==
    /\ result.tool = "continue"
    /\ result.kind = "stopped"
    /\ result.okResponses > 0

\* C6: an execution-control operation that has read a terminated event
\* returns to its caller even if no response ever follows.
C6_TerminatedEndsWait ==
    [](pc = "read" /\ cur.tool \in ExecutionControlTools /\ cur.sawTerminated
          => <>(pc # "read"))

\* C7: next, step-in and step-out succeed only on a stopped or terminated
\* event read after their request, never on the step response alone.
C7_StepCompletion ==
    result.tool \in StepTools /\ result.kind \in SuccessKinds =>
       \/ result.kind = "stopped" /\ result.via = "StoppedEvent"
       \/ result.kind = "terminated" /\ result.via = "TerminatedEvent"

\* a step read its successful response, kept waiting, and returned the
\* stopped result on the stopped event
C7_Witness ==
    /\ result.tool \in StepTools
    /\ result.kind = "stopped"
    /\ result.okResponses > 0

\* C8: pause returns the stopped result on a stopped event and the
\* terminated result on a terminated event, as continue does.
C8_PauseInspectsEvents ==
    /\ cur.tool = "pause" => ~cur.sawStopped /\ ~cur.sawTerminated
    /\ result.tool = "pause" /\ result.sawStopped => result.kind = "stopped"
    /\ result.tool = "pause" /\ result.sawTerminated =>
          result.kind = "terminated"

\* C9: an operation whose ReadMessage failed leaves the session terminated:
\* no connection handle is left for later operations to use.
C9_ReadFailureTerminatesSession ==
    result.kind = "read_error" => client = NoClient

\* C10: a request tool invoked while no connection is open returns the
\* not-connected error: it sends nothing and the bridge keeps running.
C10_NotConnectedIsRejected ==
    /\ pc = "crashed" => result.tool \notin RequestTools
    /\ result.tool \in RequestTools /\ result.sent = 0 =>
          result.kind = "not_started"

\* the debugger subprocesses that run: the one this start-debugger spawned,
\* until it closes its standard output, and the one that serves the open
\* connection of ds.client
SubprocessesRunning ==
    (IF pc = "start_wait" /\ (stdout = <<>> \/ ~Head(stdout).err)
     THEN 1 ELSE 0)
      + (IF client # NoClient /\ conn = "open" THEN 1 ELSE 0)

\* the results of start-debugger that are errors returned to the caller
StartErrorKinds == {"start_error", "send_error", "read_error", "unexpected"}

\* C11: continue invoked while no connection is held returns the
\* not-started error at once: it builds and sends no request and reads no
\* message.
C11_ContinueNotConnected ==
    /\ cur.tool = "continue" => cur.sent = 1
    /\ result.tool = "continue" /\ result.sent = 0 =>
          /\ result.kind = "not_started"
          /\ result.okResponses + result.errResponses + result.eventsRead = 0

\* continue returned the not-started error after the session was stopped
C11_Witness ==
    /\ result.tool = "continue"
    /\ result.kind = "not_started"
    /\ conn = "closed"

\* C12: two tool invocations on the same session are serialized: no
\* invocation builds, sends or reads while another one is between its
\* request and its return.
C12_InvocationsSerialized ==
    ~(pc \in {"read", "vars_read"} /\ other # NoOther)

\* C13: an operation that waits for a message on a connection that
\* stop-debugger closed under it, with nothing left to read, returns a
\* session-lost error (the error of its read).
C13_BlockedCallFailsOnTeardown ==
    [][(/\ pc \in {"read", "vars_read"}
        /\ conn = "closed"
        /\ inbound = <<>>
        /\ pc' = "idle")
       => result'.kind = "read_error"]_vars

\* C14: at most one debugger subprocess started by the bridge runs at any
\* time.
C14_OneSubprocessAtATime == SubprocessesRunning <= 1

\* C15: a stop-debugger that returns 'Debugger stopped.' leaves no
\* subprocess handle, no connection handle and no open connection, and the
\* bridge ready for the next start; a subprocess that had already exited is
\* no error.
C15_StopClearsSession ==
    /\ result.tool = "stop-debugger" /\ result.kind = "ok" =>
          /\ cmd = "nil"
          /\ client = NoClient
          /\ conn \in {"none", "closed"}
          /\ pc = "idle"
    /\ result.tool = "stop-debugger" /\ result.via = "already_finished" =>
          result.kind = "ok"

\* stop-debugger closed the connection of a session whose subprocess had
\* already exited, and returned 'Debugger stopped.'
C15_Witness ==
    /\ result.tool = "stop-debugger"
    /\ result.kind = "ok"
    /\ result.via = "already_finished"
    /\ conn = "closed"

\* C16: stop-debugger with no subprocess handle returns the 'No debugger
\* currently executing.' result, not an error, and changes nothing; so does
\* a second stop-debugger right after a successful one.
C16_StopWithoutDebugger ==
    [][(pc = "idle" /\ cmd = "nil" /\ result'.tool = "stop-debugger")
       => (/\ result'.kind = "nothing_running"
           /\ pc' = "idle"
           /\ UNCHANGED <<cmd, client, conn, wire, pending, inbound, events,
                          stdout>>)]_vars

\* stop-debugger returned 'No debugger currently executing.' after an
\* earlier stop-debugger had stopped a connected session
C16_Witness ==
    /\ result.tool = "stop-debugger"
    /\ result.kind = "nothing_running"
    /\ conn = "closed"

\* C17: a disconnect or terminate that succeeded leaves the session as
\* stop-debugger does: no subprocess handle and no connection handle.
C17_DisconnectTearsDown ==
    result.tool \in {"disconnect", "terminate"} /\ result.kind = "ok" =>
       cmd = "nil" /\ client = NoClient

\* C18: a start-debugger that returned an error leaves no subprocess handle
\* and no connection handle.
C18_FailedStartLeavesNoSession ==
    result.tool = "start-debugger" /\ result.kind \in StartErrorKinds =>
       cmd = "nil" /\ client = NoClient

\* C19: start-debugger dials only in the step in which it read the
\* readiness line from the subprocess's standard output; a line it skips
\* changes neither the connection handle nor the connection.
C19_DialsAfterReadinessLine ==
    [][/\ (/\ pc = "start_wait"
            /\ (pc' \in {"read", "crashed"} \/ result'.kind = "send_error"))
          => (/\ stdout # <<>>
              /\ ~Head(stdout).err
              /\ Head(stdout).s # <<>>
              /\ Head(Head(stdout).s) = ReadinessText)
       /\ (pc = "start_wait" /\ cur'.skipped > cur.skipped)
          => UNCHANGED <<client, conn, wire, pc>>]_vars

\* start-debugger skipped a line, then read the readiness line and connected
C19_Witness ==
    /\ pc = "read"
    /\ cur.tool = "start-debugger"
    /\ cur.skipped > 0

\* C20: a start-debugger that waits for the readiness line returns, with an
\* error if the line never comes, also when the subprocess stays alive and
\* writes nothing.
C20_StartWaitEnds ==
    [](pc = "start_wait" => <>(pc # "start_wait"))

\* the request with sequence number n is not the first one after the
\* initialize request on its connection
NotFirstAfterInitialize(n) ==
    \E i \in 1 .. Len(wire) : 1 < wire[i] /\ wire[i] < n

\* C21: a start-debugger that cannot open the connection returns an error
\* to its caller; it does not end the bridge.
C21_DialFailureIsReturned ==
    result.tool = "start-debugger" => pc # "crashed"

\* C22: configuration-done and the execution-control operations send a
\* request only after a launch: their request is never the first one after
\* initialize on its connection.
C22_NoRequestBeforeLaunch ==
    cur.tool \in ExecutionControlTools \cup {"configuration-done"}
       => NotFirstAfterInitialize(cur.seq)

\* C23: restart on a session on which nothing was launched sends no restart
\* request and returns an invalid-state error.
C23_RestartNeedsLaunch ==
    /\ cur.tool = "restart" => NotFirstAfterInitialize(cur.seq)
    /\ result.tool = "restart" /\ result.sent > 0 /\ result.kind = "ok"
          => NotFirstAfterInitialize(result.seq)

\* C24: an operation that read the failure response to its own request
\* returns an error that carries the debugger's message.
C24_FailureMessageIsReturned ==
    IsFailureOfOwnRequest(result) => result.kind = "remote_error"

\* C25: the first request on the connection opened after a stop has a
\* greater seq than every request written before the stop.
C25_SeqNotReusedAfterReconnect ==
    [][(/\ pc = "start_wait"
        /\ client = NoClient
        /\ wire # <<>>
        /\ pc' = "read")
       => \A i \in 1 .. Len(wire) : wire'[1] > wire[i]]_vars

\* C26: restart writes one restart request with the caller's args on the
\* connection of ds.client and reads its response from it; no step of it
\* changes the subprocess handle or replaces the connection handle.
C26_RestartReusesSession ==
    [][/\ (pc = "idle" /\ cur'.tool = "restart")
          => (/\ cmd' = cmd
              /\ client' = [client EXCEPT !.seq = @ + 1]
              /\ wire' = Append(wire, client.seq)
              /\ cur'.sent = 1
              /\ conn = "open" =>
                    /\ conn' = conn
                    /\ Len(pending') = Len(pending) + 1
                    /\ pending'[Len(pending')].command = "restart"
                    /\ pending'[Len(pending')].seq = client.seq
                    /\ pending'[Len(pending')].arguments.args = cur'.args)
       /\ (cur.tool = "restart" /\ cur' # cur)
          => (/\ UNCHANGED <<cmd, client, conn, wire, pending>>
              /\ pc' = "idle" => result'.sent = 1)]_vars

\* restart, called with args, returned its successful result on the open
\* connection of the running subprocess
C26_Witness ==
    /\ result.tool = "restart"
    /\ result.kind = "ok"
    /\ result.args # <<>>
    /\ cmd = "started"
    /\ conn = "open"
    /\ client # NoClient

\* C27: continue and the step operations turn every stopped event into a
\* stopped result with a description: the hit breakpoint id and the thread
\* id for the reasons 'breakpoint' and 'function breakpoint', the generic
\* text otherwise.
C27_StopIsDescribed ==
    [][(/\ pc = "read"
        /\ cur.tool \in EventLoopTools
        /\ inbound # <<>>
        /\ DecodedType(Head(inbound)) = "StoppedEvent"
        /\ cur' # cur)
       => LET body == Head(inbound).body IN
          /\ pc' = "idle"
          /\ result'.kind = "stopped"
          /\ IF body.reason \in {"breakpoint", "function breakpoint"}
             THEN /\ result'.text[1] = "hitting breakpoint"
                  /\ result'.text[2] \in Range(body.hitBreakpointIds)
                  /\ result'.text[4] = body.threadId
             ELSE result'.text = <<"unknown reason">>]_vars

\* C28: a scopes that returns its result has read the scopes response and,
\* for every variables request it sent, has written the variables of a
\* response to it; no event makes it fail or skip a scope.
C28_ScopesFetchesEveryScope ==
    /\ result.tool = "scopes" => result.via \notin EventTypes
    /\ result.tool = "scopes" /\ result.kind = "ok" =>
          /\ result.fetched = result.sent - 1
          /\ result.eventsRead = 0

\* C29: a stack-trace issued after continue returned the stopped result
\* does not return on an event, and returns on the response to its own
\* request.
C29_StackTraceAfterStop ==
    result.tool = "stack-trace" /\ result.afterStop =>
       /\ result.via \notin EventTypes
       /\ result.from # 0 => result.from = result.seq

\* C30: an evaluate issued after continue returned the stopped result
\* does not return on an event, and its result is the one of the evaluate
\* response to its own request.
C30_EvaluateAfterStop ==
    result.tool = "evaluate" /\ result.afterStop =>
       /\ result.via \notin EventTypes
       /\ result.from # 0 =>
             result.from = result.seq
                /\ result.via \in {"EvaluateResponse", "ErrorResponse"}

\* C31: start-debugger does not return because of an event: events before
\* the initialize response are ignored.
C31_StartToleratesEvents ==
    result.tool = "start-debugger" => result.via \notin EventTypes

\* an operation other than continue and the steps has sent a request on the
\* open connection and waits for a message
AwaitsResponse ==
    /\ pc \in {"read", "vars_read"}
    /\ cur.tool \notin EventLoopTools
    /\ conn = "open"

\* C32: when the debugger answers every request, an operation other than
\* continue, next, step-in and step-out that waits for a message on the open
\* connection returns.
C32_OperationsReturn ==
    [](AwaitsResponse => <>(pc = "idle"))

\* an operation that calls readAndValidateResponse read an event, went on
\* reading and returned on the response, the connection still open
C32_Witness ==
    /\ result.tool \in ValidateTools
    /\ result.eventsRead > 0
    /\ result.kind = "ok"
    /\ conn = "open"

C35_SetBreakpointsValidatesPath ==
    /\ cur.tool = "set-breakpoints" => cur.args[1] # ""
    /\ result.tool = "set-breakpoints" /\ result.args[1] = "" =>
          result.sent = 0
    /\ \A i \in 1 .. Len(pending) :
          pending[i].command = "setBreakpoints" =>
             /\ pending[i].arguments.source.path # ""
             /\ (cur.tool = "set-breakpoints" /\ pending[i].seq = cur.seq) =>
                   Len(pending[i].arguments.breakpoints) = Len(cur.args[2])

\* C36: whenever no operation is in flight, the stream holds no unread
\* response and the debugger owes none: every operation that returned has
\* read the response to every request it sent.
C36_NoUnreadResponseWhenIdle ==
    pc = "idle" =>
       /\ \A i \in 1 .. Len(inbound) : ~IsResponseMessage(inbound[i])
       /\ conn = "open" => pending = <<>>

\* C37: a stopped or terminated result of continue, next, step-in or
\* step-out does not come from an event that was unread in the stream when
\* the operation sent its request.
C37_ResultFromFreshEvent ==
    result.tool \in EventLoopTools /\ result.kind \in {"stopped", "terminated"}
       => ~result.leftover

C39_StopNeverCrashes ==
    result.tool = "stop-debugger" => pc # "crashed"

\* C40: a stop-debugger that returns the error of Kill leaves the
\* subprocess handle, the connection handle and the connection as they were.
C40_FailedStopChangesNothing ==
    [][(/\ pc = "idle"
        /\ result'.tool = "stop-debugger"
        /\ result'.kind = "kill_error"
        /\ result' # result)
       => UNCHANGED <<cmd, client, conn>>]_vars

====
